---- MODULE Spec2Model ----
(***************************************************************************)
(* A model of src/main.py: the NewsBot pipeline (fetch, aggregate,        *)
(* publish) and the run entry point main.                                 *)
(*                                                                         *)
(* Texts are sequences of one-character strings.  The Persian keywords of *)
(* Config are written in an ASCII transliteration; only equality of       *)
(* characters matters to the code modelled here.                          *)
(***************************************************************************)
EXTENDS Integers, Sequences, FiniteSets, TLC

(***************************************************************************)
(* Bounds of the model.                                                    *)
(***************************************************************************)
MaxEntries == 2      \* entries in one source's response
MaxRuns == 2         \* invocations of main in one behaviour
MaxCalls == 3        \* calls a caller makes on one NewsBot instance

(***************************************************************************)
(* Config (src/main.py:29-111).                                            *)
(***************************************************************************)
MIN_TITLE_LENGTH == 10
MAX_SUMMARY_LENGTH == 300
MAX_TITLE_LENGTH == 100
MAX_NEWS_PER_POST == 3
ENTRIES_PER_SOURCE == 5

\* Config.NEWS_CATEGORIES["sports"]["keywords"], transliterated.
SPORT_KEYWORDS ==
  << <<"f","u","t","b","a","l">>, <<"v","a","r","z","e","s","h">>,
     <<"t","i","m">>, <<"b","a","z","i","k","o","n">>,
     <<"m","o","s","a","b","e","g","h","e">>, <<"j","a","m">>,
     <<"o","l","a","m","p","i","k">> >>

\* Config.BLOCKED_KEYWORDS, transliterated.
BLOCKED_KEYWORDS ==
  << <<"t","a","b","l","i","g","h","a","t">>, <<"a","g","a","h","i">>,
     <<"f","o","r","u","s","h">> >>

\* Config.get_enabled_sources(): name -> feed url.  Two of the seven enabled
\* feeds are kept; every feed is handled by the same code.
RssSources == <<"BBC", "VOA">>
RssUrl(source) ==
  CASE source = "BBC" -> <<"/","b","b","c">>
    [] source = "VOA" -> <<"/","v","o","a">>

\* The names the module binds at import time (lines 1-10): asyncio is not
\* among them.
ModuleGlobals ==
  {"aiohttp", "feedparser", "telegram", "hashlib", "os", "logging",
   "datetime", "BeautifulSoup", "dataclass", "Dict", "List"}

(***************************************************************************)
(* Text helpers.                                                           *)
(***************************************************************************)
\* The Python expression  keyword in text  (substring test).
Contains(text, keyword) ==
  \E i \in 1..(Len(text) - Len(keyword) + 1) :
     SubSeq(text, i, i + Len(keyword) - 1) = keyword

\* The Python slice  s[:n].
Prefix(s, n) == SubSeq(s, 1, IF Len(s) < n THEN Len(s) ELSE n)

\* The text nodes of a markup string: everything between "<" and ">" is
\* dropped.  A character is inside a tag when the nearest "<" or ">" before
\* it is a "<" (inTag tells it for a text with none before); the characters
\* kept are those outside a tag that open none.
DropTags(text, inTag) ==
  LET Marks(i) == { j \in 1..(i - 1) : text[j] \in {"<", ">"} }
      Last(S) == CHOOSE j \in S : \A k \in S : k <= j
      InTag(i) == IF Marks(i) = {} THEN inTag ELSE text[Last(Marks(i))] = "<"
      marked == [i \in 1..Len(text) |->
                   [c |-> text[i], keep |-> ~InTag(i) /\ text[i] # "<"]]
      Keep(m) == m.keep
      kept == SelectSeq(marked, Keep)
  IN [i \in 1..Len(kept) |-> kept[i].c]

RECURSIVE StripLeft(_)
StripLeft(text) ==
  IF text # << >> /\ Head(text) = " " THEN StripLeft(Tail(text)) ELSE text

RECURSIVE StripRight(_)
StripRight(text) ==
  IF text # << >> /\ text[Len(text)] = " "
  THEN StripRight(SubSeq(text, 1, Len(text) - 1)) ELSE text

\* NewsBot._clean_html: soup.get_text().strip()
CleanHtml(text) == StripRight(StripLeft(DropTags(text, FALSE)))

\* NewsBot._categorize_news
CategorizeNews(text) ==
  IF \E k \in 1..Len(SPORT_KEYWORDS) : Contains(text, SPORT_KEYWORDS[k])
  THEN "sports" ELSE "general"

\* IsBlocked, were the blocklist empty.
IsBlocked_Never(title, summary) == FALSE

\* any(keyword in title.lower() or keyword in summary.lower() ...); the
\* alphabet of the model has no upper case, so lower() changes nothing.
IsBlocked(title, summary) ==
  \E k \in 1..Len(BLOCKED_KEYWORDS) :
     Contains(title, BLOCKED_KEYWORDS[k]) \/ Contains(summary, BLOCKED_KEYWORDS[k])

\* hashlib.md5(f"{title}{url}".encode()).hexdigest(): the digest is taken to
\* be collision free, so it is identified with the string it digests.
HashId(title, url) == <<"md5", title \o url>>

(***************************************************************************)
(* What the sources can answer.                                            *)
(***************************************************************************)
TitleDerby == <<"<","b",">","f","u","t","b","a","l"," ","d","e","r","b","i","<","/","b",">"," ">>
TitleEconomy == <<"e","g","h","t","e","s","a","d"," ","i","r","a","n">>
TitleShort == <<"j","a","m">>
TitleAdvert == <<"f","o","r","u","s","h"," ","f","u","t","b","a","l">>
\* A title longer than MAX_TITLE_LENGTH, with no sports keyword in it.
TitleMatch ==
  <<"b","i","g"," ","m","a","t","c","h"," ","d","a","y">>
    \o [i \in 1..MAX_TITLE_LENGTH |-> "x"]

\* Entries of a syndication feed, as feedparser yields them.
RssEntryPool ==
  { [title |-> TitleDerby, summary |-> <<"s","1">>, link |-> <<"/","1">>],
    [title |-> TitleEconomy, summary |-> <<"s","4">>, link |-> <<"/","4">>],
    [title |-> TitleAdvert, summary |-> <<"s","6">>, link |-> <<"/","6">>] }

\* Articles of the headline API's JSON answer; missing holds the keys the
\* article object lacks.
ApiArticlePool ==
  { [title |-> TitleMatch, description |-> <<"d","1">>, url |-> <<"/","a">>, missing |-> {}],
    [title |-> TitleShort, description |-> <<"d","3">>, url |-> <<"/","c">>, missing |-> {}],
    [title |-> << >>, description |-> <<"d","4">>, url |-> <<"/","d">>, missing |-> {"title"}] }

SeqsUpTo(S, n) == UNION { [1..k -> S] : k \in 0..n }

\* An answer of the transport: the request itself fails (connection error or
\* timeout), or it yields a status and a body; the body parses to a list of
\* entries or is malformed.
RssResponses ==
  { [transport_error |-> TRUE, status |-> 0, malformed |-> FALSE, entries |-> << >>] }
  \cup { [transport_error |-> FALSE, status |-> st, malformed |-> FALSE, entries |-> es] :
           st \in {200, 500}, es \in SeqsUpTo(RssEntryPool, MaxEntries) }
  \cup { [transport_error |-> FALSE, status |-> 200, malformed |-> TRUE, entries |-> << >>] }

ApiResponses ==
  { [transport_error |-> TRUE, status |-> 0, malformed |-> FALSE, entries |-> << >>] }
  \cup { [transport_error |-> FALSE, status |-> st, malformed |-> FALSE, entries |-> es] :
           st \in {200, 500}, es \in SeqsUpTo(ApiArticlePool, MaxEntries) }
  \cup { [transport_error |-> FALSE, status |-> 200, malformed |-> TRUE, entries |-> << >>] }

\* datetime.now(): what the clock adds between two reads of one fetch.  Every
\* read is taken to fall on a later instant than the one before; each awaited
\* request takes time, so the clock advances across fetches too.
Ticks == {1}

(***************************************************************************)
(* The fetchers.                                                           *)
(***************************************************************************)
\* fetch_rss_news, lines 139-143 and 146, for each entry a feed can hold:
\* the cleaned title, the cleaned and cut summary, the two filters and the
\* category of title + " " + summary.
RssFields ==
  [entry \in RssEntryPool |->
     LET title == CleanHtml(entry.title)
         summary == Prefix(CleanHtml(entry.summary), MAX_SUMMARY_LENGTH)
     IN [title |-> title,
         summary |-> summary,
         too_short |-> Len(title) < MIN_TITLE_LENGTH,
         blocked |-> IsBlocked(title, summary),
         category |-> CategorizeNews(title \o <<" ">> \o summary)]]

\* RssEmits without the test on posted_news.
RssEmits_NoDedup(hash_id, category, posted) == category = "sports"

\* fetch_rss_news, line 146: the test an entry that passed the length and
\* blocklist filters must pass to be emitted.
RssEmits(hash_id, category, posted) ==
  hash_id \notin posted /\ category = "sports"

RECURSIVE RssLoop(_, _, _, _, _, _, _)
\* fetch_rss_news, lines 138-156: the loop over feed.entries[:5]; n is the
\* number of items emitted so far, now the clock when the loop began, tick
\* what the clock adds between two reads.
RssLoop(entries, source, url, posted, now, tick, n) ==
  IF entries = << >> THEN << >>
  ELSE
    LET entry == Head(entries)
        f == RssFields[entry]
        hash_id == HashId(f.title, url)
        keep == /\ ~f.too_short
                /\ ~f.blocked
                /\ RssEmits(hash_id, f.category, posted)
        item == [title |-> Prefix(f.title, MAX_TITLE_LENGTH),
                 summary |-> f.summary,
                 url |-> entry.link,
                 source |-> source,
                 published |-> now + tick * n,
                 hash_id |-> hash_id,
                 category |-> "sports"]
    IN IF keep
       THEN <<item>> \o RssLoop(Tail(entries), source, url, posted, now, tick, n + 1)
       ELSE RssLoop(Tail(entries), source, url, posted, now, tick, n)

\* RssOnError, were the exception to leave fetch_rss_news.
RssOnError_Reraise == [raised |-> TRUE, failed |-> TRUE, items |-> << >>]

\* fetch_rss_news, lines 158-160: what the except clause does.
RssOnError == [raised |-> FALSE, failed |-> TRUE, items |-> << >>]

\* fetch_rss_news: the outcome of the call for an answer of the feed (raised:
\* an exception leaves the call; failed: the except clause ran).  The
\* status of the answer is not looked at; a body that is no feed parses to a
\* feed without entries.
FetchRssNews(source, resp, posted, now, tick) ==
  IF resp.transport_error THEN RssOnError
  ELSE [raised |-> FALSE, failed |-> FALSE,
        items |-> IF resp.malformed THEN << >>
                  ELSE RssLoop(Prefix(resp.entries, ENTRIES_PER_SOURCE), source,
                               RssUrl(source), posted, now, tick, 0)]

\* fetch_newsapi_news, lines 170-174, for each article the API can hold.
ApiFields ==
  [article \in ApiArticlePool |->
     LET title == CleanHtml(article.title)
         summary == Prefix(CleanHtml(article.description), MAX_SUMMARY_LENGTH)
     IN [title |-> title,
         summary |-> summary,
         too_short |-> Len(title) < MIN_TITLE_LENGTH,
         blocked |-> IsBlocked(title, summary)]]

\* fetch_newsapi_news, line 177.
ApiEmits(hash_id, posted) == hash_id \notin posted

RECURSIVE ApiLoop(_, _, _, _, _)
\* fetch_newsapi_news, lines 169-187: the loop over articles[:5].
ApiLoop(articles, posted, now, tick, n) ==
  IF articles = << >> THEN << >>
  ELSE
    LET article == Head(articles)
        f == ApiFields[article]
        hash_id == HashId(f.title, article.url)
        keep == /\ ~f.too_short
                /\ ~f.blocked
                /\ ApiEmits(hash_id, posted)
        item == [title |-> Prefix(f.title, MAX_TITLE_LENGTH),
                 summary |-> f.summary,
                 url |-> article.url,
                 source |-> "NewsAPI",
                 published |-> now + tick * n,
                 hash_id |-> hash_id,
                 category |-> "sports"]
    IN IF keep
       THEN <<item>> \o ApiLoop(Tail(articles), posted, now, tick, n + 1)
       ELSE ApiLoop(Tail(articles), posted, now, tick, n)

\* Whether the loop over the articles raises: article['title'] and
\* article['url'] raise KeyError on an article that lacks the key.
ApiLoopRaises(articles) ==
  \E i \in 1..Len(articles) : articles[i].missing \cap {"title", "url"} # {}

\* fetch_newsapi_news, lines 189-191: what the except clause returns.
ApiOnError == [raised |-> FALSE, failed |-> TRUE, items |-> << >>]

\* fetch_newsapi_news: the list the call returns for an answer of the API.
FetchNewsapiNews(resp, posted, now, tick) ==
  IF \/ resp.transport_error
     \/ resp.status >= 400          \* response.raise_for_status()
     \/ resp.malformed              \* response.json() raises
     \/ ApiLoopRaises(Prefix(resp.entries, ENTRIES_PER_SOURCE))
  THEN ApiOnError
  ELSE [raised |-> FALSE, failed |-> FALSE,
        items |-> ApiLoop(Prefix(resp.entries, ENTRIES_PER_SOURCE), posted, now, tick, 0)]

(***************************************************************************)
(* The aggregator's ordering.                                              *)
(***************************************************************************)
\* GoesBefore without reverse=True.
GoesBefore_Ascending(a, b) == a.published < b.published

\* key=lambda x: x.published, reverse=True: whether item a goes before item b
\* when b was in the list before a.
GoesBefore(a, b) == a.published > b.published

RECURSIVE InsertByKey(_, _)
InsertByKey(sorted, x) ==
  IF sorted = << >> THEN <<x>>
  ELSE IF GoesBefore(x, Head(sorted)) THEN <<x>> \o sorted
  ELSE <<Head(sorted)>> \o InsertByKey(Tail(sorted), x)

RECURSIVE SortNews(_, _)
\* all_news.sort(key=..., reverse=True): list.sort is stable, also when
\* reversed, so equal keys keep the order they had.
SortNews(sorted, rest) ==
  IF rest = << >> THEN sorted
  ELSE SortNews(InsertByKey(sorted, Head(rest)), Tail(rest))

\* collect_all_news, lines 244-245.
SortAndTruncate(news) == Prefix(SortNews(<< >>, news), MAX_NEWS_PER_POST)

(***************************************************************************)
(* State.                                                                  *)
(***************************************************************************)
VARIABLES
  mode,         \* who drives the bot: "main" (runs of main) or "api" (a caller of one NewsBot)
  pc,           \* the statement the coroutine is at
  creds,        \* Config.NEW_BOT_TOKEN and Config.NEW_CHANNEL_ID: whether each is set
  run,          \* invocations of main so far
  calls,        \* calls made on the NewsBot instance so far
  posted_news,  \* NewsBot.posted_news
  session,      \* NewsBot.session: "none", "open" or "closed"
  all_news,     \* collect_all_news: all_news
  src,          \* collect_all_news: position in the loop over the feeds
  clock,        \* datetime.now(), counted from the start of collect_all_news
  news_items,   \* the list collect_all_news returned
  idx,          \* post_news_to_channel: position in news_items
  message,      \* post_news_to_channel: the formatted message of the item at idx
  enriched,     \* post_news_to_channel: how summarize_news ended for that message: "none", "done", "failed"
  result,       \* what main returned
  call,         \* the last call that ended: which one, and whether it raised
  inflight,     \* sources whose request is issued and not yet answered
  started,      \* sources whose fetch has begun in this collect_all_news
  finished,     \* sources whose fetch has ended in this collect_all_news
  contrib,      \* per source of this collect_all_news: is its answer healthy, is its HTTP status 400 or more, and the items the answer holds
  seen_posted,  \* hash_ids of candidates of this collect_all_news that were in posted_news
  delivered,    \* the channel: hash_ids whose send this instance saw confirmed
  duplicated,   \* the channel: hash_ids whose send this instance saw confirmed more than once
  earlier,      \* hash_ids whose send earlier runs saw confirmed
  outcome,      \* per position of news_items in this post_news_to_channel: "pending", "sent", "failed"
  error_log,    \* positions of news_items for which line 271 logged an error
  slept         \* asyncio.sleep calls completed in this post_news_to_channel

vars ==
  << mode, pc, creds, run, calls, posted_news, session, all_news, src, clock,
     news_items, idx, message, enriched, result, call, inflight, started, finished,
     contrib, seen_posted, delivered, duplicated, earlier, outcome, error_log, slept >>

NoResult == [status |-> "none", message |-> "none", count |-> 0]
NoCall == [op |-> "none", raised |-> FALSE]
NoMessage == [title |-> << >>, summary |-> << >>, url |-> << >>,
              source |-> "", timestamp |-> 0]
NumSources == 1 + Len(RssSources)   \* the headline API is source 0, the feeds 1..

\* An item without its timestamp.
Untimed(item) ==
  [title |-> item.title, summary |-> item.summary, url |-> item.url,
   source |-> item.source, hash_id |-> item.hash_id, category |-> item.category]

UntimedAll(items) == [i \in 1..Len(items) |-> Untimed(items[i])]

\* State common to every initial state: no bot constructed, nothing fetched.
InitCommon ==
  /\ run = 0
  /\ calls = 0
  /\ posted_news = {}
  /\ session = "none"
  /\ all_news = << >>
  /\ src = 0
  /\ clock = 0
  /\ news_items = << >>
  /\ idx = 1
  /\ message = NoMessage
  /\ enriched = "none"
  /\ result = NoResult
  /\ call = NoCall
  /\ inflight = {}
  /\ started = {}
  /\ finished = {}
  /\ contrib = << >>
  /\ seen_posted = {}
  /\ delivered = {}
  /\ duplicated = {}
  /\ earlier = {}
  /\ outcome = << >>
  /\ error_log = {}
  /\ slept = 0

\* The process before the first invocation of main.
Init ==
  /\ mode = "main"
  /\ pc = "main_idle"
  /\ creds \in [token : BOOLEAN, channel : BOOLEAN]
  /\ InitCommon

\* A NewsBot just constructed (lines 114-122), in the hands of a caller.
InitBot ==
  /\ mode = "api"
  /\ pc = "idle"
  /\ creds = [token |-> TRUE, channel |-> TRUE]
  /\ InitCommon

(***************************************************************************)
(* Helpers of the actions.                                                 *)
(***************************************************************************)
ctlVars == << mode, creds >>
channelVars == << delivered, duplicated >>
fetchVars ==
  << all_news, src, clock, inflight, started, finished, contrib, seen_posted >>
postVars == << idx, message, enriched, outcome, error_log, slept >>

\* The clock after a fetch that began at now and emitted items.
LastStamp(items, now) ==
  IF items = << >> THEN now ELSE items[Len(items)].published

\* Whether an answer is one of a healthy source: the request went through
\* with a success status and the body is well formed.
RssHealthy(resp) ==
  ~resp.transport_error /\ resp.status < 400 /\ ~resp.malformed

ApiHealthy(resp) ==
  /\ ~resp.transport_error /\ resp.status < 400 /\ ~resp.malformed
  /\ ~ApiLoopRaises(Prefix(resp.entries, ENTRIES_PER_SOURCE))

\* The hash_ids of the entries of an answer that pass every filter but the
\* one on posted_news.
RssCandidates(entries, url) ==
  { HashId(RssFields[entries[i]].title, url) :
      i \in { j \in 1..Len(Prefix(entries, ENTRIES_PER_SOURCE)) :
                /\ ~RssFields[entries[j]].too_short
                /\ ~RssFields[entries[j]].blocked
                /\ RssFields[entries[j]].category = "sports" } }

ApiCandidates(articles) ==
  { HashId(ApiFields[articles[i]].title, articles[i].url) :
      i \in { j \in 1..Len(Prefix(articles, ENTRIES_PER_SOURCE)) :
                /\ ~ApiFields[articles[j]].too_short
                /\ ~ApiFields[articles[j]].blocked } }

\* CredentialsSet, were the channel id not tested at line 118.
CredentialsSet_TokenOnly == creds.token

\* PostedAfterFetch, were a fetcher to add what it emits to posted_news.
PostedAfterFetch_Marks(posted, items) ==
  posted \cup { items[i].hash_id : i \in 1..Len(items) }

\* fetch_rss_news and fetch_newsapi_news, lines 132-191: posted_news once the
\* fetcher has returned items.  The fetchers only read it (lines 146, 177).
PostedAfterFetch(posted, items) == posted

\* NewsBot.__init__, lines 116-119: the test that lets construction go on.
CredentialsSet == creds.token /\ creds.channel

\* Where control is once a call made by the driver has returned.
AfterCollect == IF mode = "main" THEN "main_check" ELSE "idle"
AfterPost == IF mode = "main" THEN "main_close" ELSE "idle"
\* Where control is once an exception has left a call made by the driver:
\* main catches it at line 282, a caller of the bot gets it.
AfterRaise == IF mode = "main" THEN "main_except" ELSE "idle"

\* The locals of a post_news_to_channel call that begins on batch.
BeginPost(batch) ==
  /\ idx' = 1
  /\ message' = NoMessage
  /\ enriched' = "none"
  /\ outcome' = [i \in 1..Len(batch) |-> "pending"]
  /\ error_log' = {}
  /\ slept' = 0

\* The locals of collect_all_news are dead once the caller goes on.
DropFetchLocals ==
  /\ all_news' = << >>
  /\ src' = 0
  /\ clock' = 0
  /\ contrib' = << >>
  /\ seen_posted' = {}
  /\ UNCHANGED << inflight, started, finished >>

\* summarize_news: the text the call returns; the service's answer is one
\* fixed text here, and on any failure the argument comes back (line 223).
SummaryText == <<"A","I">>
SummarizeNews(text, ok) == IF ok THEN SummaryText ELSE text

\* _format_news_message, applied to the item rebuilt at lines 252-260.
FormatNewsMessage(news, summarized_text) ==
  [title |-> news.title, summary |-> summarized_text, url |-> news.url,
   source |-> news.source, timestamp |-> news.published]

\* AfterSend, were line 267 reached whether or not send_message raised.
AfterSend_MarkAlways(ok) == "mark"

\* post_news_to_channel, lines 261-271: where control goes after
\* send_message, which returns (ok) or raises.
AfterSend(ok) == IF ok THEN "mark" ELSE "post_except"

\* IndexAfterError, were the try statement around the loop: the loop ends.
IndexAfterError_Abort(i, n) == n + 1

\* post_news_to_channel, lines 248 and 270-271: the except clause is inside
\* the loop, so after it the loop goes on with the next position.
IndexAfterError(i, n) == i + 1

\* asyncio.sleep at line 269: whether the name asyncio resolves.
AsyncioBound == "asyncio" \in ModuleGlobals

(***************************************************************************)
(* main, lines 273-284.                                                    *)
(***************************************************************************)
\* main is invoked: bot = NewsBot().
MainConstruct ==
  /\ mode = "main"
  /\ pc \in {"main_idle", "main_done"}
  /\ run < MaxRuns
  /\ run' = run + 1
  /\ result' = NoResult
  /\ call' = NoCall
  /\ earlier' = earlier \cup delivered
  /\ delivered' = {}
  /\ duplicated' = {}
  /\ news_items' = << >>
  /\ all_news' = << >>
  /\ src' = 0
  /\ clock' = 0
  /\ contrib' = << >>
  /\ seen_posted' = {}
  /\ inflight' = {}
  /\ started' = {}
  /\ finished' = {}
  /\ BeginPost(<< >>)
  /\ IF CredentialsSet
     THEN /\ posted_news' = {}
          /\ session' = "none"
          /\ pc' = "start_session"
     ELSE /\ pc' = "main_except"      \* ValueError
          /\ UNCHANGED << posted_news, session >>
  /\ UNCHANGED << ctlVars, calls >>

\* if not news_items: return error; else post_news_to_channel(news_items).
MainCheck ==
  /\ pc = "main_check"
  /\ IF news_items = << >>
     THEN /\ result' = [status |-> "error", message |-> "No news fetched", count |-> 0]
          /\ pc' = "main_done"
          /\ UNCHANGED postVars
     ELSE /\ pc' = "summarize"
          /\ BeginPost(news_items)
          /\ UNCHANGED result
  /\ DropFetchLocals
  /\ UNCHANGED << ctlVars, run, calls, posted_news, session, news_items, call,
                  channelVars, earlier >>

\* await bot.close_session()
CloseSession ==
  /\ pc = "main_close"
  /\ session' = IF session = "none" THEN "none" ELSE "closed"
  /\ pc' = "main_return"
  /\ UNCHANGED << ctlVars, run, calls, posted_news, news_items, result, call,
                  fetchVars, postVars, channelVars, earlier >>

\* return {'status': 'success', 'message': f'Sent {len(news_items)} ...'}
MainReturn ==
  /\ pc = "main_return"
  /\ result' = [status |-> "success", message |-> "Sent", count |-> Len(news_items)]
  /\ pc' = "main_done"
  /\ UNCHANGED << ctlVars, run, calls, posted_news, session, news_items, call,
                  fetchVars, postVars, channelVars, earlier >>

\* except Exception as e: return {'status': 'error', 'message': str(e)}
MainExcept ==
  /\ pc = "main_except"
  /\ result' = [status |-> "error", message |-> "exception", count |-> 0]
  /\ pc' = "main_done"
  /\ UNCHANGED << ctlVars, run, calls, posted_news, session, news_items, call,
                  fetchVars, postVars, channelVars, earlier >>

(***************************************************************************)
(* A caller that holds one NewsBot and calls its two operations.           *)
(***************************************************************************)
ApiCollect ==
  /\ mode = "api"
  /\ pc = "idle"
  /\ calls < MaxCalls
  /\ calls' = calls + 1
  /\ call' = NoCall
  /\ pc' = "start_session"
  /\ all_news' = << >>
  /\ src' = 0
  /\ clock' = 0
  /\ contrib' = << >>
  /\ seen_posted' = {}
  /\ inflight' = {}
  /\ started' = {}
  /\ finished' = {}
  /\ BeginPost(<< >>)
  /\ UNCHANGED << ctlVars, run, posted_news, session, news_items, result,
                  channelVars, earlier >>

\* post_news_to_channel(news_items) on the list collect_all_news returned last.
ApiPost ==
  /\ mode = "api"
  /\ pc = "idle"
  /\ calls < MaxCalls
  /\ calls' = calls + 1
  /\ BeginPost(news_items)
  /\ IF news_items = << >>
     THEN pc' = "idle" /\ call' = [op |-> "post", raised |-> FALSE]
     ELSE pc' = "summarize" /\ call' = NoCall
  /\ DropFetchLocals
  /\ UNCHANGED << ctlVars, run, posted_news, session, news_items, result,
                  channelVars, earlier >>

(***************************************************************************)
(* collect_all_news, lines 236-245.                                        *)
(***************************************************************************)
\* await self.start_session(); all_news = []
StartSession ==
  /\ pc = "start_session"
  /\ session' = IF session = "none" THEN "open" ELSE session
  /\ all_news' = << >>
  /\ pc' = "newsapi_request"
  /\ UNCHANGED << ctlVars, run, calls, posted_news, src, clock, news_items,
                  result, call, inflight, started, finished, contrib, seen_posted,
                  postVars,
                  channelVars, earlier >>

\* fetch_newsapi_news up to the request: self.session.get(url)
NewsapiRequest ==
  /\ pc = "newsapi_request"
  /\ inflight' = inflight \cup {0}
  /\ started' = started \cup {0}
  /\ pc' = "newsapi_response"
  /\ UNCHANGED << ctlVars, run, calls, posted_news, session, all_news, src,
                  clock, news_items, result, call, finished, contrib, seen_posted,
                  postVars,
                  channelVars, earlier >>

\* The answer arrives; the rest of fetch_newsapi_news runs, and
\* all_news.extend(newsapi_items).
NewsapiResponse ==
  /\ pc = "newsapi_response"
  /\ \E resp \in ApiResponses, tick \in Ticks :
       LET r == FetchNewsapiNews(resp, posted_news, clock + 1, tick)
           expected == IF ApiHealthy(resp)
                       THEN ApiLoop(Prefix(resp.entries, ENTRIES_PER_SOURCE),
                                    posted_news, clock + 1, tick, 0)
                       ELSE << >>
       IN /\ inflight' = inflight \ {0}
          /\ finished' = finished \cup {0}
          /\ contrib' = Append(contrib, [healthy |-> ApiHealthy(resp),
                                         refused |-> resp.status >= 400,
                                         items |-> UntimedAll(expected)])
          /\ seen_posted' = seen_posted \cup
               IF ApiHealthy(resp) THEN ApiCandidates(resp.entries) \cap posted_news
               ELSE {}
          /\ IF r.raised
             THEN /\ pc' = AfterRaise
                  /\ call' = [op |-> "collect", raised |-> TRUE]
                  /\ UNCHANGED << all_news, clock, src >>
             ELSE /\ all_news' = all_news \o r.items
                  /\ clock' = LastStamp(r.items, clock + 1)
                  /\ src' = 1
                  /\ pc' = IF Len(RssSources) = 0 THEN "sort" ELSE "rss_request"
                  /\ UNCHANGED call
          /\ posted_news' = PostedAfterFetch(posted_news, r.items)
  /\ UNCHANGED << ctlVars, run, calls, session, news_items,
                  result, started, postVars, channelVars, earlier >>

\* fetch_rss_news(source, url) up to the request, for the feed at src.
RssRequest ==
  /\ pc = "rss_request"
  /\ inflight' = inflight \cup {src}
  /\ started' = started \cup {src}
  /\ pc' = "rss_response"
  /\ UNCHANGED << ctlVars, run, calls, posted_news, session, all_news, src,
                  clock, news_items, result, call, finished, contrib, seen_posted,
                  postVars,
                  channelVars, earlier >>

\* The answer arrives; the rest of fetch_rss_news runs, and
\* all_news.extend(rss_items).
RssResponse ==
  /\ pc = "rss_response"
  /\ \E resp \in RssResponses, tick \in Ticks :
       LET source == RssSources[src]
           r == FetchRssNews(source, resp, posted_news, clock + 1, tick)
           expected == IF RssHealthy(resp)
                       THEN RssLoop(Prefix(resp.entries, ENTRIES_PER_SOURCE), source,
                                    RssUrl(source), posted_news, clock + 1, tick, 0)
                       ELSE << >>
       IN /\ inflight' = inflight \ {src}
          /\ finished' = finished \cup {src}
          /\ contrib' = Append(contrib, [healthy |-> RssHealthy(resp),
                                         refused |-> resp.status >= 400,
                                         items |-> UntimedAll(expected)])
          /\ seen_posted' = seen_posted \cup
               IF RssHealthy(resp)
               THEN RssCandidates(resp.entries, RssUrl(source)) \cap posted_news
               ELSE {}
          /\ IF r.raised
             THEN /\ pc' = AfterRaise
                  /\ call' = [op |-> "collect", raised |-> TRUE]
                  /\ UNCHANGED << all_news, clock, src >>
             ELSE /\ all_news' = all_news \o r.items
                  /\ clock' = LastStamp(r.items, clock + 1)
                  /\ src' = src + 1
                  /\ pc' = IF src = Len(RssSources) THEN "sort" ELSE "rss_request"
                  /\ UNCHANGED call
          /\ posted_news' = PostedAfterFetch(posted_news, r.items)
  /\ UNCHANGED << ctlVars, run, calls, session, news_items,
                  result, started, postVars, channelVars, earlier >>

\* all_news.sort(...); return all_news[:Config.MAX_NEWS_PER_POST]
CollectReturn ==
  /\ pc = "sort"
  /\ all_news' = SortNews(<< >>, all_news)
  /\ news_items' = SortAndTruncate(all_news)
  /\ call' = [op |-> "collect", raised |-> FALSE]
  /\ pc' = AfterCollect
  /\ UNCHANGED << ctlVars, run, calls, posted_news, session, src, clock,
                  result, inflight, started, finished, contrib, seen_posted,
                  postVars,
                  channelVars, earlier >>

(***************************************************************************)
(* post_news_to_channel, lines 247-271.                                    *)
(***************************************************************************)
\* Lines 250-260: summarize_news and _format_news_message for the item at idx.
Summarize ==
  /\ pc = "summarize"
  /\ \E ok \in BOOLEAN :
       LET news == news_items[idx]
           text == news.title \o <<"\n">> \o news.summary
       IN /\ message' = FormatNewsMessage(news, SummarizeNews(text, ok))
          /\ enriched' = IF ok THEN "done" ELSE "failed"
  /\ pc' = "send"
  /\ UNCHANGED << ctlVars, run, calls, posted_news, session, news_items,
                  result, call, fetchVars, idx, outcome, error_log, slept,
                  channelVars, earlier >>

\* Lines 261-266: await self.bot.send_message(...), which returns or raises.
SendMessage ==
  /\ pc = "send"
  /\ \E ok \in BOOLEAN :
       /\ delivered' = IF ok THEN delivered \cup {news_items[idx].hash_id}
                       ELSE delivered
       /\ duplicated' = IF ok /\ news_items[idx].hash_id \in delivered
                        THEN duplicated \cup {news_items[idx].hash_id}
                        ELSE duplicated
       /\ outcome' = [outcome EXCEPT ![idx] = IF ok THEN "sent" ELSE "failed"]
       /\ pc' = AfterSend(ok)
  /\ message' = NoMessage
  /\ enriched' = "none"
  /\ UNCHANGED << ctlVars, run, calls, posted_news, session, news_items,
                  result, call, fetchVars, idx, error_log, slept, earlier >>

\* Lines 267-268: self.posted_news.add(news.hash_id); logger.info(...)
MarkPosted ==
  /\ pc = "mark"
  /\ posted_news' = posted_news \cup {news_items[idx].hash_id}
  /\ pc' = "sleep"
  /\ UNCHANGED << ctlVars, run, calls, session, news_items, result, call,
                  fetchVars, postVars, channelVars, earlier >>

\* Line 269: await asyncio.sleep(Config.DELAY_BETWEEN_POSTS).  When the name
\* asyncio is not bound, evaluating it raises NameError, which line 270 catches.
Sleep ==
  /\ pc = "sleep"
  /\ IF AsyncioBound
     THEN /\ slept' = slept + 1
          /\ idx' = idx + 1
          /\ pc' = IF idx = Len(news_items) THEN "post_return" ELSE "summarize"
     ELSE /\ pc' = "post_except"
          /\ UNCHANGED << slept, idx >>
  /\ UNCHANGED << ctlVars, run, calls, posted_news, session, news_items,
                  result, call, fetchVars, message, enriched, outcome, error_log,
                  channelVars, earlier >>

\* Lines 270-271: except Exception as e: logger.error(...)
PostExcept ==
  /\ pc = "post_except"
  /\ error_log' = error_log \cup {idx}
  /\ idx' = IndexAfterError(idx, Len(news_items))
  /\ pc' = IF idx' > Len(news_items) THEN "post_return" ELSE "summarize"
  /\ UNCHANGED << ctlVars, run, calls, posted_news, session, news_items,
                  result, call, fetchVars, message, enriched, outcome, slept,
                  channelVars, earlier >>

\* The loop is over: post_news_to_channel returns.
PostReturn ==
  /\ pc = "post_return"
  /\ call' = [op |-> "post", raised |-> FALSE]
  /\ pc' = AfterPost
  /\ UNCHANGED << ctlVars, run, calls, posted_news, session, news_items,
                  result, fetchVars, postVars, channelVars, earlier >>

(***************************************************************************)
(* Specifications.                                                         *)
(***************************************************************************)
Collect ==
  \/ StartSession
  \/ NewsapiRequest
  \/ NewsapiResponse
  \/ RssRequest
  \/ RssResponse
  \/ CollectReturn

Post ==
  \/ Summarize
  \/ SendMessage
  \/ MarkPosted
  \/ Sleep
  \/ PostExcept
  \/ PostReturn

\* Successive invocations of main.
Next ==
  \/ MainConstruct
  \/ MainCheck
  \/ CloseSession
  \/ MainReturn
  \/ MainExcept
  \/ Collect
  \/ Post

Spec == Init /\ [][Next]_vars

\* One NewsBot instance, its operations called in any order.
NextBot ==
  \/ ApiCollect
  \/ ApiPost
  \/ Collect
  \/ Post

SpecBot == InitBot /\ [][NextBot]_vars

(***************************************************************************)
(* Properties.                                                             *)
(***************************************************************************)
FetchPcs == {"start_session", "newsapi_request", "newsapi_response",
             "rss_request", "rss_response", "sort"}
PostPcs == {"summarize", "send", "mark", "sleep", "post_except", "post_return"}
AllSources == 0..Len(RssSources)

\* collect_all_news has just returned to its caller.
Collected == call = [op |-> "collect", raised |-> FALSE] /\ pc \in {"main_check", "idle"}

\* The name items of the source at position k of contrib carry.
SourceName(k) == IF k = 1 THEN "NewsAPI" ELSE RssSources[k - 1]

\* The items of a list that come from the source called name, in order.
FromSource(news, name) ==
  LET IsFrom(x) == x.source = name IN SelectSeq(news, IsFrom)

Count(news, x) == Cardinality({ i \in 1..Len(news) : news[i] = x })

Positions(status) == { i \in 1..Len(outcome) : outcome[i] = status }

\* C1: on one NewsBot, the channel send succeeds at most once per hash_id.
C1_NeverPublishedTwice == duplicated = {}

\* C2: an item whose send an earlier run of main saw confirmed is not sent
\* again by a later run.
C2_NoResendAcrossRuns == delivered \cap earlier = {}

\* C3: every hash_id in posted_news is the hash_id of an item whose channel
\* send was confirmed.
C3_PostedWasSent == posted_news \subseteq delivered

\* C3 witness: a call in which one send failed and another succeeded has
\* marked the one that succeeded.
C3_Witness ==
  /\ pc = "post_return"
  /\ Positions("failed") # {}
  /\ posted_news # {}

\* C4: a candidate whose hash_id is in posted_news is rejected by the fetch
\* that produces it: no item gathered by collect_all_news, and no item of the
\* list it returns, carries a hash_id of posted_news.
C4_PostedRejected ==
  /\ pc \in FetchPcs \/ Collected =>
       \A i \in 1..Len(all_news) : all_news[i].hash_id \notin posted_news
  /\ Collected =>
       \A i \in 1..Len(news_items) : news_items[i].hash_id \notin posted_news

\* C4 witness: collect_all_news has returned after a source produced a
\* candidate whose hash_id was in posted_news.
C4_Witness == Collected /\ seen_posted # {}

\* C5: a failed send leaves the item's hash_id out of posted_news (unless the
\* send of another item with the same hash_id was confirmed), the call does
\* not raise, and when it returns every item was attempted and every item
\* whose send was confirmed is marked.
C5_FailureIsolated ==
  /\ pc \in PostPcs =>
       \A i \in Positions("failed") :
          news_items[i].hash_id \in posted_news =>
            \E j \in Positions("sent") : news_items[j].hash_id = news_items[i].hash_id
  /\ pc = "post_return" =>
       /\ Positions("pending") = {}
       /\ \A i \in Positions("sent") : news_items[i].hash_id \in posted_news
  /\ call.op = "post" => ~call.raised

\* C5 witness: the send of item 2 of 3 failed, item 3 was sent and marked.
C5_Witness ==
  /\ pc = "post_return"
  /\ Len(news_items) = 3
  /\ outcome[2] = "failed"
  /\ outcome[3] = "sent"
  /\ news_items[3].hash_id \in posted_news
  /\ news_items[2].hash_id \notin posted_news

\* C6: whichever sources fail, collect_all_news does not raise, and the items
\* it gathers from each healthy source are those the source's own answer holds.
C6_SourceIsolated ==
  /\ call.op = "collect" => ~call.raised
  /\ pc = "sort" =>
       /\ Len(contrib) = NumSources
       /\ \A k \in 1..NumSources :
            contrib[k].healthy =>
              UntimedAll(FromSource(all_news, SourceName(k))) = contrib[k].items

\* C6 witness: the fetches are over, a source failed, and healthy sources
\* before and after it contributed items.
C6_Witness ==
  /\ pc = "sort"
  /\ ~contrib[2].healthy
  /\ contrib[1].healthy /\ contrib[1].items # << >>
  /\ contrib[3].healthy /\ contrib[3].items # << >>

\* C7: collect_all_news returns at most MAX_NEWS_PER_POST items, all of them
\* gathered candidates, exactly MAX_NEWS_PER_POST when that many were gathered,
\* and no candidate left out is later than a returned one.
C7_MostRecentReturned ==
  Collected =>
    /\ Len(news_items) <= MAX_NEWS_PER_POST
    /\ Len(all_news) >= MAX_NEWS_PER_POST => Len(news_items) = MAX_NEWS_PER_POST
    /\ Len(all_news) < MAX_NEWS_PER_POST => Len(news_items) = Len(all_news)
    /\ \A i \in 1..Len(news_items) :
         Count(news_items, news_items[i]) <= Count(all_news, news_items[i])
    /\ \A i \in 1..Len(all_news) :
         Count(all_news, all_news[i]) > Count(news_items, all_news[i]) =>
           \A j \in 1..Len(news_items) :
              all_news[i].published <= news_items[j].published

\* C7 witness: more candidates were gathered than are returned.
C7_Witness == Collected /\ Len(all_news) > MAX_NEWS_PER_POST

\* C8: a send attempt begins only after a sleep has completed for every
\* earlier confirmed send of the call.
C8_SleepBetweenSends ==
  pc = "send" => slept = Cardinality(Positions("sent"))

\* C9: the fetches are dispatched together (none ends before all have
\* begun), and publishing begins only after all have ended.
C9_FetchesDispatchedTogether ==
  /\ finished # {} => started = AllSources
  /\ mode = "main" /\ pc \in PostPcs => finished = AllSources /\ inflight = {}

\* C10: a run in which collect_all_news returned no item does not return the
\* error status, the status of a run that aborts before fetching.
C10_NothingToPublishIsNotError ==
  pc = "main_done" /\ call = [op |-> "collect", raised |-> FALSE] /\ news_items = << >>
    => result.status # "error"

\* C11: when summarize_news fails, the message handed to send_message carries
\* the item's own summary, and its title, url, source and timestamp are the
\* item's.
C11_FailedEnrichmentKeepsItem ==
  pc = "send" /\ enriched = "failed" =>
    /\ message.summary = news_items[idx].summary
    /\ message.title = news_items[idx].title
    /\ message.url = news_items[idx].url
    /\ message.source = news_items[idx].source
    /\ message.timestamp = news_items[idx].published

\* C12: in a run of main with a required credential missing, no source is
\* requested, summarize_news is not called, nothing is sent, no session is
\* opened, and main returns the error status.
C12_AbortBeforeFetch ==
  mode = "main" /\ run > 0 /\ ~(creds.token /\ creds.channel) =>
    /\ pc \in {"main_except", "main_done"}
    /\ started = {} /\ inflight = {} /\ finished = {}
    /\ enriched = "none" /\ message = NoMessage
    /\ outcome = << >> /\ delivered = {}
    /\ session = "none"
    /\ pc = "main_done" => result.status = "error"

\* C12 witness: main has returned from a run in which the channel id alone
\* was missing.
C12_Witness ==
  /\ pc = "main_done" /\ run > 0
  /\ creds.token /\ ~creds.channel
  /\ result.status = "error"

\* C13: any two items the fetchers emitted with equal title and equal url
\* carry equal hash_id.
C13_FingerprintOfTitleAndUrl ==
  \A i, j \in 1..Len(all_news) :
     all_news[i].title = all_news[j].title /\ all_news[i].url = all_news[j].url
       => all_news[i].hash_id = all_news[j].hash_id

\* C14: the number of published items main reports is the number of items
\* whose send was confirmed in that run.
C14_ReportedCountIsConfirmed ==
  pc = "main_done" /\ result.status = "success" =>
    result.count = Cardinality(Positions("sent"))

\* C15: a source whose answer carries a status of 400 or more contributes no
\* item, whatever the body of the answer holds.
C15_BadStatusYieldsNothing ==
  \A k \in 1..Len(contrib) :
     contrib[k].refused => FromSource(all_news, SourceName(k)) = << >>

\* C16: posted_news changes only by the step of the publish loop that marks
\* the item just sent (line 267): no step of collect_all_news or of a fetcher
\* changes it, and the step that does is taken with no fetch under way.
C16_PostedWrittenOnlyByPublisher ==
  [][posted_news' # posted_news =>
       pc = "mark" /\ inflight = {} /\ pc' \in PostPcs]_vars

\* C16 witness: the fetches of a collect_all_news are over, they gathered
\* items, and posted_news was not empty meanwhile.
C16_Witness ==
  /\ pc = "sort"
  /\ all_news # << >>
  /\ posted_news # {}

\* C17: every item a fetcher emitted carries the category _categorize_news
\* gives for its title and summary; so no item is labelled sports when its
\* text holds no sports keyword.
C17_CategoryIsCategorizers ==
  \A i \in 1..Len(all_news) :
     all_news[i].category =
       CategorizeNews(all_news[i].title \o <<" ">> \o all_news[i].summary)

\* C18: every item collect_all_news returns has a title of at least
\* MIN_TITLE_LENGTH and at most MAX_TITLE_LENGTH characters, and neither its
\* title nor its summary holds a blocklisted keyword.
C18_ReturnedPassedFilters ==
  Collected =>
    \A i \in 1..Len(news_items) :
       /\ Len(news_items[i].title) >= MIN_TITLE_LENGTH
       /\ Len(news_items[i].title) <= MAX_TITLE_LENGTH
       /\ \A k \in 1..Len(BLOCKED_KEYWORDS) :
            /\ ~Contains(news_items[i].title, BLOCKED_KEYWORDS[k])
            /\ ~Contains(news_items[i].summary, BLOCKED_KEYWORDS[k])

\* C18 witness: collect_all_news has returned an item whose title was cut to
\* MAX_TITLE_LENGTH next to one whose title is shorter.
C18_Witness ==
  /\ Collected
  /\ \E i, j \in 1..Len(news_items) :
       /\ Len(news_items[i].title) = MAX_TITLE_LENGTH
       /\ Len(news_items[j].title) < MAX_TITLE_LENGTH

\* C19: an error is logged for an item (line 271) only when the send of that
\* item failed: the item was not sent in that attempt.
C19_ErrorOnlyOnFailedSend ==
  \A i \in error_log : outcome[i] = "failed"

\* C20: when main returns from a run in which collect_all_news opened the
\* session, the session has been closed.
C20_SessionReleased ==
  pc = "main_done" => session # "open"

====
